---------------------------- MODULE Spec2Model ----------------------------
(***************************************************************************)
(* A model of fd-rs: the Simluation container (src/src/base.rs), the two   *)
(* equations (src/src/equations.rs) and the Scheme trait with its four     *)
(* implementations (src/src/schemes.rs).                                   *)
(*                                                                         *)
(* Numbers.  The code is generic over T: Float.  The model computes over   *)
(* exact rationals <<n, d>> (d > 0, lowest terms), i.e. it models the      *)
(* arithmetic the code denotes, without rounding.  A panic (assert!,       *)
(* assert_eq!, index out of bounds, unwrap of None) is an outcome          *)
(* [ok |-> FALSE, err |-> kind]; it unwinds through every caller.          *)
(***************************************************************************)
EXTENDS Integers, Sequences, FiniteSets, TLC

VARIABLES sim, ret, steps

vars == <<sim, ret, steps>>

---------------------------------------------------------------------------
(* Exact rational arithmetic                                               *)

Abs(n) == IF n < 0 THEN -n ELSE n

Min(a, b) == IF a <= b THEN a ELSE b

Max(a, b) == IF a >= b THEN a ELSE b

RECURSIVE GCD(_, _)
GCD(a, b) == IF b = 0 THEN a ELSE GCD(b, a % b)

\* n/d in lowest terms with a positive denominator (d # 0)
Rat(n, d) ==
    IF n = 0 THEN <<0, 1>>
    ELSE IF d = 1 THEN <<n, 1>>
    ELSE LET g == GCD(Abs(n), Abs(d))
             s == IF d < 0 THEN -1 ELSE 1
         IN  <<s * (n \div g), s * (d \div g)>>

from(n) == <<n, 1>>

Zero == from(0)

One == from(1)

Two == from(2)

Three == from(3)

\* 1/y for y # 0
RInv(y) == IF y[1] < 0 THEN <<-y[2], -y[1]>> ELSE <<y[2], y[1]>>

RAdd(x, y) ==
    IF x[2] = y[2] THEN Rat(x[1] + y[1], x[2])
    ELSE LET g == GCD(x[2], y[2])
         IN  Rat(x[1] * (y[2] \div g) + y[1] * (x[2] \div g),
                 (x[2] \div g) * y[2])

RNeg(x) == <<-x[1], x[2]>>

RSub(x, y) == RAdd(x, RNeg(y))

RMul(x, y) ==
    IF x[1] = 0 \/ y[1] = 0 THEN <<0, 1>>
    ELSE LET g1 == GCD(Abs(x[1]), y[2])
             g2 == GCD(Abs(y[1]), x[2])
         IN  <<(x[1] \div g1) * (y[1] \div g2), (x[2] \div g2) * (y[2] \div g1)>>

\* x / y for y # 0 (every division the reachable code performs has y # 0)
RDiv(x, y) == RMul(x, RInv(y))

RAbs(x) == <<Abs(x[1]), x[2]>>

RLt(x, y) ==
    LET g == GCD(x[2], y[2])
    IN  x[1] * (y[2] \div g) < y[1] * (x[2] \div g)

RLe(x, y) == ~RLt(y, x)

RGt(x, y) == RLt(y, x)

\* ceil(x) as an integer
RCeil(x) == -((-x[1]) \div x[2])

\* the exact sum of s[lo..hi]
RECURSIVE SumRange(_, _, _)
SumRange(s, lo, hi) ==
    IF lo > hi THEN Zero
    ELSE IF lo = hi THEN s[lo]
    ELSE RAdd(SumRange(s, lo, (lo + hi) \div 2),
              SumRange(s, (lo + hi) \div 2 + 1, hi))

Sum(s) == SumRange(s, 1, Len(s))

---------------------------------------------------------------------------
(* Outcomes and iterator helpers                                           *)

Ok(v) == [ok |-> TRUE, val |-> v, err |-> "none"]

Panic(e) == [ok |-> FALSE, val |-> <<>>, err |-> e]

\* the number of items of iter().skip(k) and of iter().take(k), for an
\* iterator of l items; izip! stops with its shortest iterator
SkipLen(l, k) == Max(l - k, 0)

TakeLen(l, k) == Min(l, k)

Min3(a, b, c) == Min(a, Min(b, c))

Min4(a, b, c, d) == Min(Min(a, b), Min(c, d))

\* zip(u_iter, u_iter.skip(1)).map(|(l, r)| r - l)
Diff(u) == [k \in 1..Min(Len(u), SkipLen(Len(u), 1)) |-> RSub(u[k + 1], u[k])]

---------------------------------------------------------------------------
(* Equations (src/src/equations.rs)                                        *)

Advection(a) == [kind |-> "Advection", a |-> a]

InviscidBurger == [kind |-> "InviscidBurger", a |-> Zero]

\* Equation::f
f(eq, u) ==
    IF eq.kind = "Advection" THEN RMul(u, eq.a)
    ELSE RDiv(RMul(u, u), Two)

\* Equation::df
df(eq, u) ==
    IF eq.kind = "Advection" THEN eq.a
    ELSE u

---------------------------------------------------------------------------
(* Simluation (src/src/base.rs)                                            *)

None == <<>>

\* Simluation::len
len(s) == Len(s.state)

\* Simluation::dt_over_dx
dt_over_dx(s) == RDiv(s.dt, s.dx)

\* a wrong get_u loop, for comparison: the left pad is taken from the left
\* end of the state and the right pad from the right end
RECURSIVE get_u_loop_unwrapped(_, _, _, _)
get_u_loop_unwrapped(s, v, i, ext) ==
    IF i >= ext THEN Ok(v)
    ELSE IF len(s) - 1 - i < 0 \/ i >= len(s) THEN Panic("index")
    ELSE get_u_loop_unwrapped(s, <<s.state[i + 1]>> \o v \o <<s.state[len(s) - i]>>,
                              i + 1, ext)

\* the loop of get_u: iterations i..ext-1 on the work vector v.  With no
\* boundary values it reads u[u.len() - 1 - i] and then u[i]; an index
\* outside u panics.
RECURSIVE get_u_loop(_, _, _, _)
get_u_loop(s, v, i, ext) ==
    IF i >= ext THEN Ok(v)
    ELSE IF s.boundary # None
    THEN get_u_loop(s, <<s.boundary[1]>> \o v \o <<s.boundary[2]>>, i + 1, ext)
    ELSE IF len(s) - 1 - i < 0 \/ i >= len(s) THEN Panic("index")
    ELSE get_u_loop(s, <<s.state[len(s) - i]>> \o v \o <<s.state[i + 1]>>,
                    i + 1, ext)

\* the sanity check closing get_u and get_f
sanity(s, ext, r) ==
    IF ~r.ok THEN r
    ELSE IF len(s) + 2 * ext # Len(r.val) THEN Panic("len")
    ELSE r

\* Simluation::get_u
get_u(s, ext) ==
    sanity(s, ext, IF ext > 0 THEN get_u_loop(s, s.state, 0, ext) ELSE Ok(s.state))

\* self.get_u(ext).map(|x| eq.f(*x))
map_f(eq, r) ==
    IF ~r.ok THEN r ELSE Ok([k \in 1..Len(r.val) |-> f(eq, r.val[k])])

\* Simluation::get_f
get_f(s, eq, ext) == sanity(s, ext, map_f(eq, get_u(s, ext)))

---------------------------------------------------------------------------
(* Scheme::speed (src/src/schemes.rs), a provided method: the same code    *)
(* for the four schemes                                                    *)

\* the closure compute_v without its assertion
compute_v(s, eq, u, du, dfv) ==
    RMul(IF du = Zero THEN df(eq, u) ELSE RDiv(dfv, du), dt_over_dx(s))

\* the assertion of compute_v
cfl_ok(v) == RLe(RAbs(v), One)

\* v+: izip!(u.skip(1), du.skip(1), df.skip(1)).map(compute_v)
speed_v_pos(s, eq, u, du, dfs) ==
    [k \in 1..Min3(SkipLen(Len(u), 1), SkipLen(Len(du), 1), SkipLen(Len(dfs), 1))
        |-> compute_v(s, eq, u[k + 1], du[k + 1], dfs[k + 1])]

\* v-: izip!(u.skip(ext), du.take(n + ext * 2), df.take(n + ext * 2))
speed_v_neg(s, eq, ext, u, du, dfs) ==
    [k \in 1..Min3(SkipLen(Len(u), ext), TakeLen(Len(du), len(s) + ext * 2),
                   TakeLen(Len(dfs), len(s) + ext * 2))
        |-> compute_v(s, eq, u[k + ext], du[k], dfs[k])]

\* collecting v+ and then v- runs the assertion on each speed; the two
\* sanity checks follow
speed_checked(s, ext, v_neg, v_pos) ==
    IF \E k \in 1..Len(v_pos) : ~cfl_ok(v_pos[k]) THEN Panic("cfl")
    ELSE IF \E k \in 1..Len(v_neg) : ~cfl_ok(v_neg[k]) THEN Panic("cfl")
    ELSE IF Len(v_neg) # Len(v_pos) THEN Panic("len")
    ELSE IF Len(v_pos) # len(s) + 2 * ext THEN Panic("len")
    ELSE Ok(<<v_neg, v_pos>>)

speed_of(s, eq, ext, u, du, dfs) ==
    speed_checked(s, ext, speed_v_neg(s, eq, ext, u, du, dfs),
                  speed_v_pos(s, eq, u, du, dfs))

speed_uf(s, eq, ext, ur, fr) ==
    IF ~ur.ok THEN ur
    ELSE IF ~fr.ok THEN fr
    ELSE speed_of(s, eq, ext, ur.val, Diff(ur.val), Diff(fr.val))

\* Scheme::speed
speed(s, eq, ext) == speed_uf(s, eq, ext, get_u(s, ext + 1), get_f(s, eq, ext + 1))

---------------------------------------------------------------------------
(* The four numerical fluxes (src/src/schemes.rs)                          *)

\* the sanity checks closing every flux
flux_checked(s, h_neg, h_pos) ==
    IF Len(h_neg) # Len(h_pos) THEN Panic("len")
    ELSE IF Len(h_neg) # len(s) THEN Panic("len")
    ELSE Ok(<<h_neg, h_pos>>)

\* a wrong h+ of Upwind, for comparison: the downwind flux
upwind_h_pos_downwind(v_pos, fx) ==
    [k \in 1..Min3(Len(v_pos), SkipLen(Len(fx), 1), SkipLen(Len(fx), 2)) |->
        IF RGt(v_pos[k], Zero) THEN fx[k + 2] ELSE fx[k + 1]]

\* h+ of Upwind: izip!(v_pos, f.skip(1), f.skip(2))
upwind_h_pos(v_pos, fx) ==
    [k \in 1..Min3(Len(v_pos), SkipLen(Len(fx), 1), SkipLen(Len(fx), 2)) |->
        IF RGt(v_pos[k], Zero) THEN fx[k + 1] ELSE fx[k + 2]]

\* a wrong h- of Upwind, for comparison: always the flux of the left cell
upwind_h_neg_left(v_neg, fx) ==
    [k \in 1..Min3(Len(v_neg), SkipLen(Len(fx), 1), Len(fx)) |-> fx[k]]

\* a wrong h- of Upwind, for comparison: always the flux of the cell itself
upwind_h_neg_own(v_neg, fx) ==
    [k \in 1..Min3(Len(v_neg), SkipLen(Len(fx), 1), Len(fx)) |-> fx[k + 1]]

\* h- of Upwind: izip!(v_neg, f.skip(1), f)
upwind_h_neg(v_neg, fx) ==
    [k \in 1..Min3(Len(v_neg), SkipLen(Len(fx), 1), Len(fx)) |->
        IF RLt(v_neg[k], Zero) THEN fx[k + 1] ELSE fx[k]]

upwind_of(s, fr, vr) ==
    IF ~fr.ok THEN fr
    ELSE IF ~vr.ok THEN vr
    ELSE flux_checked(s, upwind_h_neg(vr.val[1], fr.val),
                      upwind_h_pos(vr.val[2], fr.val))

\* Upwind::flux
UpwindFlux(s, eq) == upwind_of(s, get_f(s, eq, 1), speed(s, eq, 0))

\* the closure shared by h+ and h- of BeamWarming::flux
bw_h(v1, v2, v3, f1, f2, f3, f4) ==
    IF RGt(v2, Zero)
    THEN RDiv(RSub(RSub(RMul(Three, f2), f1), RMul(v1, RSub(f2, f1))), Two)
    ELSE RDiv(RSub(RSub(RMul(Three, f3), f4), RMul(v3, RSub(f4, f3))), Two)

\* h+ of BeamWarming: izip!(v_neg.skip(1), v_pos.skip(1), v_pos.skip(2),
\*                          f.skip(1), f.skip(2), f.skip(3), f.skip(4))
bw_h_pos(v_neg, v_pos, fx) ==
    [k \in 1..Min4(SkipLen(Len(v_neg), 1), SkipLen(Len(v_pos), 2),
                   SkipLen(Len(fx), 4), SkipLen(Len(fx), 1)) |->
        bw_h(v_neg[k + 1], v_pos[k + 1], v_pos[k + 2],
             fx[k + 1], fx[k + 2], fx[k + 3], fx[k + 4])]

\* h- of BeamWarming: izip!(v_neg, v_neg.skip(1), v_pos.skip(1),
\*                          f, f.skip(1), f.skip(2), f.skip(3)).take(n)
bw_h_neg(n, v_neg, v_pos, fx) ==
    [k \in 1..Min4(SkipLen(Len(v_neg), 1), SkipLen(Len(v_pos), 1),
                   SkipLen(Len(fx), 3), n) |->
        bw_h(v_neg[k], v_neg[k + 1], v_pos[k + 1],
             fx[k], fx[k + 1], fx[k + 2], fx[k + 3])]

bw_of(s, fr, vr) ==
    IF ~fr.ok THEN fr
    ELSE IF ~vr.ok THEN vr
    ELSE flux_checked(s, bw_h_neg(len(s), vr.val[1], vr.val[2], fr.val),
                      bw_h_pos(vr.val[1], vr.val[2], fr.val))

\* BeamWarming::flux
BeamWarmingFlux(s, eq) == bw_of(s, get_f(s, eq, 2), speed(s, eq, 1))

\* the closure of LaxWendroff::flux, on a left cell (ul, fl) and its right
\* neighbour (ur, fr)
lw_h(eq, r, ul, ur, fl, fr) ==
    f(eq, RDiv(RSub(RAdd(ur, ul), RMul(r, RSub(fr, fl))), Two))

\* a wrong closure of LaxFriedrichs::flux, for comparison: only the mean of
\* the fluxes is halved
lf_h_unhalved(eq, r, ul, ur, fl, fr) ==
    RSub(RDiv(RAdd(fr, fl), Two), RMul(r, RSub(ur, ul)))

\* the closure of LaxFriedrichs::flux, likewise
lf_h(eq, r, ul, ur, fl, fr) ==
    RDiv(RSub(RAdd(fr, fl), RMul(r, RSub(ur, ul))), Two)

\* h+ of both: izip!(u.skip(1), u.skip(2), f.skip(1), f.skip(2))
centred_n_pos(u, fx) == Min(SkipLen(Len(u), 2), SkipLen(Len(fx), 2))

\* h- of both: izip!(u.skip(1), u.take(n), f.skip(1), f.take(n))
centred_n_neg(n, u, fx) ==
    Min4(SkipLen(Len(u), 1), TakeLen(Len(u), n),
         SkipLen(Len(fx), 1), TakeLen(Len(fx), n))

lw_of(s, eq, ur, fr) ==
    IF ~ur.ok THEN ur
    ELSE IF ~fr.ok THEN fr
    ELSE flux_checked(s,
            [k \in 1..centred_n_neg(len(s), ur.val, fr.val) |->
                lw_h(eq, dt_over_dx(s), ur.val[k], ur.val[k + 1],
                     fr.val[k], fr.val[k + 1])],
            [k \in 1..centred_n_pos(ur.val, fr.val) |->
                lw_h(eq, dt_over_dx(s), ur.val[k + 1], ur.val[k + 2],
                     fr.val[k + 1], fr.val[k + 2])])

\* LaxWendroff::flux
LaxWendroffFlux(s, eq) == lw_of(s, eq, get_u(s, 1), get_f(s, eq, 1))

lf_of(s, eq, ur, fr) ==
    IF ~ur.ok THEN ur
    ELSE IF ~fr.ok THEN fr
    ELSE flux_checked(s,
            [k \in 1..centred_n_neg(len(s), ur.val, fr.val) |->
                lf_h(eq, dt_over_dx(s), ur.val[k], ur.val[k + 1],
                     fr.val[k], fr.val[k + 1])],
            [k \in 1..centred_n_pos(ur.val, fr.val) |->
                lf_h(eq, dt_over_dx(s), ur.val[k + 1], ur.val[k + 2],
                     fr.val[k + 1], fr.val[k + 2])])

\* LaxFriedrichs::flux
LaxFriedrichsFlux(s, eq) == lf_of(s, eq, get_u(s, 1), get_f(s, eq, 1))

Schemes == {"Upwind", "BeamWarming", "LaxWendroff", "LaxFriedrichs"}

\* Scheme::flux, dispatched on the implementing type
flux(scheme, s, eq) ==
    CASE scheme = "Upwind"        -> UpwindFlux(s, eq)
      [] scheme = "BeamWarming"   -> BeamWarmingFlux(s, eq)
      [] scheme = "LaxWendroff"   -> LaxWendroffFlux(s, eq)
      [] scheme = "LaxFriedrichs" -> LaxFriedrichsFlux(s, eq)

\* a wrong run, for comparison: the update of the state with its halo
run_of_extended(s, hr, ur) ==
    IF ~hr.ok THEN hr
    ELSE IF ~ur.ok THEN ur
    ELSE Ok(<<ur.val[Len(ur.val)]>> \o ur.val \o <<ur.val[1]>>)

\* u - (h_pos - h_neg).mapv(|x| dt_over_dx * x)
run_of(s, hr, ur) ==
    IF ~hr.ok THEN hr
    ELSE IF ~ur.ok THEN ur
    ELSE Ok([k \in 1..Len(ur.val) |->
               RSub(ur.val[k],
                    RMul(dt_over_dx(s), RSub(hr.val[2][k], hr.val[1][k])))])

\* Scheme::run
run(scheme, s, eq) == run_of(s, flux(scheme, s, eq), get_u(s, 0))

---------------------------------------------------------------------------
(* Construction (src/src/base.rs)                                          *)

\* Array::range(start, end, step) of ndarray, as new and default call it:
\* ceil((end - start) / step) converted to usize (a panic when it is NaN,
\* infinite or <= -1), then start + k * step for k < that length.
ArrayRange(lo, hi, dx) ==
    IF dx = Zero THEN Panic("range")
    ELSE LET n == RCeil(RDiv(RSub(hi, lo), dx))
         IN  IF n < 0 THEN Panic("range")
             ELSE Ok([k \in 1..n |-> RAdd(lo, RMul(from(k - 1), dx))])

\* the initial waves of the drivers: the square wave and a plain ramp
init_wave(name, x) ==
    IF name = "square"
    THEN (IF RLe(Zero, x) /\ RLe(x, One) THEN One ELSE Zero)
    ELSE x

\* the struct new builds from the grid
new_of(dx, dt, init, g) ==
    IF ~g.ok THEN g
    ELSE Ok([state    |-> [k \in 1..Len(g.val) |-> init_wave(init, g.val[k])],
             dt       |-> dt,
             dx       |-> dx,
             grid     |-> g.val,
             boundary |-> None])

\* Simluation::new
new(dx, dt, range, init) == new_of(dx, dt, init, ArrayRange(range[1], range[2], dx))

\* the struct default builds from the grid
default_of(dx, cfl, space) ==
    IF ~space.ok THEN space
    ELSE Ok([state    |-> [k \in 1..Len(space.val) |-> Zero],
             dt       |-> RMul(cfl, dx),
             dx       |-> dx,
             grid     |-> space.val,
             boundary |-> None])

\* Simluation::default
default ==
    default_of(Rat(1, 100), Rat(6, 10), ArrayRange(from(-5), from(5), Rat(1, 100)))

---------------------------------------------------------------------------
(* Bounds and input sets                                                   *)

\* longest vector handed to set_state, and longest state of SpecFn
MaxLen == 3

\* driver steps per behaviour
MaxSteps == 2

\* widest halo asked of get_u, get_f and speed
MaxExt == 3

\* run is explored on states of values within [-MaxAbs, MaxAbs] whose
\* denominators are at most MaxDen
MaxAbs == 8

MaxDen == 16

Vals == {from(-1), Zero, One}

Vectors == UNION {[1..n -> Vals] : n \in 0..MaxLen}

Eqs == {Advection(One), Advection(from(-2)), InviscidBurger}

DxVals == {from(-1), Zero, One}

DtVals == {Zero, Rat(1, 2), Two}

Ranges == {<<Zero, Zero>>, <<One, Zero>>, <<Zero, Two>>, <<Zero, Three>>}

Inits == {"square", "ramp"}

\* Advection(a = 1), dx = 0.1, dt = 0.05 on [-1, 1) with the square wave
Scenario == [dx |-> Rat(1, 10), dt |-> Rat(1, 20),
             range |-> <<from(-1), One>>, init |-> "square"]

NewArgs ==
    [dx : DxVals, dt : DtVals, range : Ranges, init : Inits] \cup {Scenario}

---------------------------------------------------------------------------
(* The life of one simulation: sim is <<>> before construction and <<s>>   *)
(* after; ret records the last call and its outcome.                       *)

S == sim[1]

Call(op, arg, r) ==
    [op |-> op, arg |-> arg, ok |-> r.ok, err |-> r.err, val |-> r.val]

Init ==
    /\ sim = <<>>
    /\ ret = Call("none", <<>>, Ok(<<>>))
    /\ steps = 0

\* a panic unwinds out of the driver: no call follows one
Running == ret.ok

\* the simulation after a call whose outcome is r: a panic leaves it alone
After(r) == IF r.ok THEN <<r.val>> ELSE sim

\* what a constructor or set_state reports: nothing, or the panic
Unit(r) == IF r.ok THEN Ok(<<>>) ELSE r

Constructed(op, arg, r) ==
    /\ sim' = After(r)
    /\ ret' = Call(op, arg, Unit(r))

\* let sim = Simluation::new(dx, dt, range, init)
New(a) ==
    /\ Running
    /\ sim = <<>>
    /\ Constructed("new", a, new(a.dx, a.dt, a.range, a.init))
    /\ UNCHANGED steps

\* let sim = Simluation::default()
Default ==
    /\ Running
    /\ sim = <<>>
    /\ Constructed("default", <<>>, default)
    /\ UNCHANGED steps

\* a wrong set_state, for comparison: the assignment without the assertion
set_state_unchecked(s, new_state) == Ok([s EXCEPT !.state = new_state])

\* Simluation::set_state as a function of the simulation
set_state(s, new_state) ==
    IF len(s) # Len(new_state) THEN Panic("len")
    ELSE Ok([s EXCEPT !.state = new_state])

\* sim.set_state(v)
SetState(v) ==
    /\ Running
    /\ sim # <<>>
    /\ Constructed("set_state", v, set_state(S, v))
    /\ UNCHANGED steps

\* the state is within the magnitudes the run actions are explored on
Bounded(u) ==
    {k \in 1..Len(u) : Abs(u[k][1]) > MaxAbs * u[k][2] \/ u[k][2] > MaxDen} = {}

\* set_state on the outcome of run: a panic of run unwinds past it
set_run(s, r) == IF r.ok THEN set_state(s, r.val) ELSE r

\* what the step reports: the new state, or the panic
Stepped(r, w) == IF w.ok THEN r ELSE w

StepWith(arg, r) ==
    /\ sim' = After(set_run(S, r))
    /\ ret' = Call("step", arg, Stepped(r, set_run(S, r)))

\* sim.set_state(scheme.run(&sim, &eq)), the body of the drivers' loop
Step(scheme, eq) ==
    /\ Running
    /\ sim # <<>>
    /\ steps < MaxSteps
    /\ Bounded(S.state)
    /\ StepWith([scheme |-> scheme, eq |-> eq], run(scheme, S, eq))
    /\ steps' = steps + 1

Next ==
    \/ \E a \in NewArgs : New(a)
    \/ Default
    \/ \E v \in Vectors : SetState(v)
    \/ \E scheme \in Schemes, eq \in Eqs : Step(scheme, eq)

Spec == Init /\ [][Next]_vars

---------------------------------------------------------------------------
(* The read-only calls on a constructed simulation: any simulation new     *)
(* builds, holding any state set_state accepts, asked once for one of      *)
(* get_u, get_f, speed, flux and run.                                      *)

Sims ==
    UNION {{set_state(new(a.dx, a.dt, a.range, a.init).val, v).val :
                v \in {w \in Vectors :
                         Len(w) = len(new(a.dx, a.dt, a.range, a.init).val)}} :
           a \in {b \in NewArgs : /\ new(b.dx, b.dt, b.range, b.init).ok
                                  /\ b # Scenario}}

InitFn ==
    /\ sim \in {<<s>> : s \in Sims}
    /\ ret = Call("none", <<>>, Ok(<<>>))
    /\ steps = 0

Asked(op, arg, r) ==
    /\ ret.op = "none"
    /\ ret' = Call(op, arg, r)
    /\ UNCHANGED <<sim, steps>>

\* sim.get_u(ext)
GetU(ext) == Asked("get_u", [ext |-> ext], get_u(S, ext))

\* sim.get_f(&eq, ext)
GetF(eq, ext) == Asked("get_f", [eq |-> eq, ext |-> ext], get_f(S, eq, ext))

\* scheme.speed(&sim, &eq, ext)
Speed(eq, ext) == Asked("speed", [eq |-> eq, ext |-> ext], speed(S, eq, ext))

\* scheme.flux(&sim, &eq)
Flux(scheme, eq) ==
    Asked("flux", [scheme |-> scheme, eq |-> eq], flux(scheme, S, eq))

\* a wrong run, for comparison: it stores the new state in the simulation
RunInPlace(scheme, eq) ==
    /\ ret.op = "none"
    /\ ret' = Call("run", [scheme |-> scheme, eq |-> eq], run(scheme, S, eq))
    /\ sim' = After(set_run(S, run(scheme, S, eq)))
    /\ UNCHANGED steps

\* scheme.run(&sim, &eq)
Run(scheme, eq) ==
    Asked("run", [scheme |-> scheme, eq |-> eq], run(scheme, S, eq))

NextFn ==
    \/ \E ext \in 0..MaxExt + 1 : GetU(ext)
    \/ \E eq \in Eqs, ext \in 0..MaxExt + 1 : GetF(eq, ext)
    \/ \E eq \in Eqs, ext \in 0..MaxExt : Speed(eq, ext)
    \/ \E scheme \in Schemes, eq \in Eqs : Flux(scheme, eq)
    \/ \E scheme \in Schemes, eq \in Eqs : Run(scheme, eq)

SpecFn == InitFn /\ [][NextFn]_vars

---------------------------------------------------------------------------
(* Properties                                                              *)

Periodic(s) == s.boundary = None

\* C1: under the periodic boundary a successful run returns an array whose
\* exact sum is the sum of the state, for every scheme and equation, so a
\* driver step sim.set_state(scheme.run(&sim, &eq)) keeps the sum.
C1_Conservation ==
    [][(ret'.op = "step" /\ ret'.ok /\ Periodic(S))
        => /\ Sum(ret'.val) = Sum(S.state)
           /\ Sum(S'.state) = Sum(S.state)]_vars

\* a Beam-Warming step on Burgers' equation moved a state that is not flat
C1_Witness ==
    /\ ret.op = "step" /\ ret.ok
    /\ ret.arg.scheme = "BeamWarming" /\ ret.arg.eq = InviscidBurger
    /\ len(S) = 3
    /\ S.state[1] # S.state[2]
    /\ Sum(S.state) # Zero

\* some cell has dt/dx * |df(u)| > 1
CflBroken(s, eq) ==
    \E k \in 1..len(s) : RGt(RMul(dt_over_dx(s), RAbs(df(eq, s.state[k]))), One)

\* C2: when dt/dx * max|df(u)| > 1 over the cells of the state, run fails
\* with a CFL violation for each of the four schemes.
C2_CflEnforced ==
    (ret.op = "run" /\ CflBroken(S, ret.arg.eq))
        => (~ret.ok /\ ret.err = "cfl")

\* C3: set_state(v) with len(v) # N is rejected and leaves the simulation
\* as it was; with len(v) = N it replaces the state by v, and nothing else.
C3_SetState ==
    [][ret'.op = "set_state"
        => IF Len(ret'.arg) # len(S)
           THEN ~ret'.ok /\ ret'.err = "len" /\ sim' = sim
           ELSE ret'.ok /\ S' = [S EXCEPT !.state = ret'.arg]]_vars

\* a vector one short of a state of at least two cells was rejected
C3_Witness ==
    /\ ret.op = "set_state" /\ ~ret.ok
    /\ len(S) >= 2
    /\ Len(ret.arg) = len(S) - 1

ValidConfig(a) ==
    /\ RGt(a.dx, Zero)
    /\ RGt(a.dt, Zero)
    /\ RGt(a.range[2], a.range[1])

\* C4: new fails, creating no simulation, whenever dx <= 0 or dt <= 0 or
\* hi <= lo, and succeeds only when dx > 0, dt > 0 and hi > lo.
C4_Validation ==
    ret.op = "new"
        => /\ ret.ok <=> ValidConfig(ret.arg)
           /\ ~ValidConfig(ret.arg) => sim = <<>>

\* C5: grid and state have the same length in every state reached from new
\* or default by set_state calls and driver steps; a successful run returns
\* len(state) values and no step fails a length check.
C5_Lengths ==
    /\ sim # <<>> => Len(S.grid) = Len(S.state)
    /\ (ret.op = "step" /\ ret.ok) => Len(ret.val) = Len(S.state)
    /\ ret.op = "step" => ret.err # "len"

\* a driver step replaced the state of a three-cell simulation
C5_Witness ==
    /\ ret.op = "step" /\ ret.ok
    /\ len(S) = 3
    /\ steps >= 1

\* the periodic extension the claim describes, 0-based extended index e of
\* a state u under halo k
Wrapped(u, k, e) ==
    IF e < k THEN u[(Len(u) - 1 - (k - 1 - e)) + 1]
    ELSE IF e < k + Len(u) THEN u[(e - k) + 1]
    ELSE u[(e - k - Len(u)) + 1]

\* C6: for 0 <= k <= N, get_u(k) holds the state in the middle, left-pad
\* slot k-1-i is state[N-1-i] and right-pad slot k+N+i is state[i] for
\* 0 <= i < k; get_f(eq, k) is eq.f of that sequence, element by element.
C6_PeriodicExtension ==
    /\ (ret.op = "get_u" /\ Periodic(S) /\ ret.arg.ext <= len(S))
        => /\ ret.ok
           /\ Len(ret.val) = len(S) + 2 * ret.arg.ext
           /\ \A j \in 1..len(S) : ret.val[ret.arg.ext + j] = S.state[j]
           /\ \A i \in 0..ret.arg.ext - 1 :
                /\ ret.val[(ret.arg.ext - 1 - i) + 1] = S.state[(len(S) - 1 - i) + 1]
                /\ ret.val[(ret.arg.ext + len(S) + i) + 1] = S.state[i + 1]
    /\ (ret.op = "get_f" /\ Periodic(S) /\ ret.arg.ext <= len(S))
        => /\ ret.ok
           /\ Len(ret.val) = len(S) + 2 * ret.arg.ext
           /\ \A e \in 0..Len(ret.val) - 1 :
                ret.val[e + 1] = f(ret.arg.eq, Wrapped(S.state, ret.arg.ext, e))

\* get_u(2) on three cells whose ends differ
C6_Witness ==
    /\ ret.op = "get_u" /\ ret.ok
    /\ ret.arg.ext = 2
    /\ len(S) = 3
    /\ S.state[1] # S.state[3]
    /\ S.state[2] # S.state[3]

\* the simulation of the end-to-end scenario, as new builds it
ScenarioSim == new(Scenario.dx, Scenario.dt, Scenario.range, Scenario.init).val

UpwindOnAdvection == [scheme |-> "Upwind", eq |-> Advection(One)]

ScenarioStep ==
    /\ sim = <<ScenarioSim>>
    /\ ret'.op = "step"
    /\ ret'.arg = UpwindOnAdvection

\* the cell to the left of cell j (1-based) on the periodic grid
Left(u, j) == IF j = 1 THEN u[Len(u)] ELSE u[j - 1]

\* C7 as stated: one Upwind step of the scenario moves the square wave one
\* cell in the positive direction, every cell keeping a plateau value.
C7_ShiftsOneCell ==
    [][ScenarioStep
        => /\ ret'.ok
           /\ \A j \in 1..len(S) : S'.state[j] = Left(S.state, j)]_vars

\* C7 as the code has it: the scenario starts as 1.0 on the grid points of
\* [0, 1) and 0.0 elsewhere; one Upwind step sets the first cell behind
\* each of the two jumps (the cell at x = 0 and, by the periodic wrap, the
\* cell at x = -1) to 1/2 and leaves every other cell as it was.
C7_FrontSmearsHalf ==
    [][ScenarioStep
        => /\ len(S) = 20
           /\ dt_over_dx(S) = Rat(1, 2)
           /\ \A j \in 1..len(S) :
                S.state[j] = IF RLe(Zero, S.grid[j]) /\ RLt(S.grid[j], One)
                             THEN One ELSE Zero
           /\ ret'.ok
           /\ \A j \in 1..len(S) :
                S'.state[j] = IF S.state[j] # Left(S.state, j)
                              THEN Rat(1, 2) ELSE S.state[j]
           /\ {j \in 1..len(S) : S'.state[j] # S.state[j]} = {1, 11}]_vars

\* the scenario took its Upwind step
C7_Witness ==
    /\ ret.op = "step" /\ ret.ok
    /\ ret.arg = UpwindOnAdvection
    /\ steps = 1
    /\ S.grid = ScenarioSim.grid
    /\ S.state[11] = Rat(1, 2)

\* C8: run leaves the simulation it is given as it was (grid, state, dt, dx
\* and boundary), whether it returns a new array or fails.
C8_RunIsPure ==
    [][ret'.op = "run" => sim' = sim]_vars

\* run returned an array that differs from the state it was computed from
C8_Witness ==
    /\ ret.op = "run" /\ ret.ok
    /\ len(S) = 3
    /\ ret.val # S.state

\* the speed of interface k (1-based) of the extended state u with flux fx,
\* as the claim defines it
IfaceSpeed(s, eq, u, fx, k) ==
    RMul(dt_over_dx(s),
         IF u[k + 1] # u[k]
         THEN RDiv(RSub(fx[k + 1], fx[k]), RSub(u[k + 1], u[k]))
         ELSE df(eq, u[k]))

\* the N + 2 ext + 1 interface speeds of the (ext+1)-extended state
IfaceSpeeds(s, eq, ext) ==
    [k \in 1..len(s) + 2 * ext + 1 |->
        IfaceSpeed(s, eq, get_u(s, ext + 1).val, get_f(s, eq, ext + 1).val, k)]

\* C9: for every ext and every state of N >= ext + 1 cells, the arrays
\* speed returns are windows of the interface speeds s: v_minus[k] = s[k]
\* and v_plus[k] = s[k+1], hence v_minus[k+1] = v_plus[k].
C9_SpeedWindows ==
    (ret.op = "speed" /\ ret.ok /\ len(S) >= ret.arg.ext + 1)
        => /\ \A k \in 1..len(S) + 2 * ret.arg.ext :
                /\ ret.val[1][k] = IfaceSpeeds(S, ret.arg.eq, ret.arg.ext)[k]
                /\ ret.val[2][k] = IfaceSpeeds(S, ret.arg.eq, ret.arg.ext)[k + 1]
           /\ \A k \in 1..len(S) + 2 * ret.arg.ext - 1 :
                ret.val[1][k + 1] = ret.val[2][k]

\* every interface speed passes the CFL bound
AllWithinCfl(s, eq, ext) ==
    \A k \in 1..len(s) + 2 * ext + 1 : RLe(RAbs(IfaceSpeeds(s, eq, ext)[k]), One)

\* the halo of speed that the scheme's flux asks for
SpeedExt(scheme) == IF scheme = "Upwind" THEN 0 ELSE 1

\* C10: speed returns, with two arrays of N + 2 ext speeds, exactly when
\* every interface speed of the (ext+1)-extended state has |v| <= 1; a
\* speed beyond the bound fails flux and run of Upwind and Beam-Warming.
C10_CflExact ==
    /\ (ret.op = "speed" /\ len(S) >= ret.arg.ext + 1)
        => /\ ret.ok <=> AllWithinCfl(S, ret.arg.eq, ret.arg.ext)
           /\ ret.ok => /\ Len(ret.val[1]) = len(S) + 2 * ret.arg.ext
                        /\ Len(ret.val[2]) = len(S) + 2 * ret.arg.ext
           /\ ~ret.ok => ret.err = "cfl"
    /\ (/\ ret.op \in {"flux", "run"}
        /\ ret.arg.scheme \in {"Upwind", "BeamWarming"}
        /\ len(S) >= SpeedExt(ret.arg.scheme) + 1
        /\ ~AllWithinCfl(S, ret.arg.eq, SpeedExt(ret.arg.scheme)))
        => (~ret.ok /\ ret.err = "cfl")

\* Upwind.flux was asked of a simulation with dt > 0 and dx > 0 and returned
UpwindFluxReturned ==
    /\ ret.op = "flux" /\ ret.arg.scheme = "Upwind" /\ ret.ok
    /\ RGt(S.dt, Zero) /\ RGt(S.dx, Zero)

\* C11: with dt > 0 and dx > 0, for every cell j Upwind.flux returns
\* h_plus[j] = f[j] if v_plus[j] > 0 else f[j+1] and h_minus[j] = f[j-1] if
\* v_minus[j] > 0 else f[j], over the halo-1 extension (cell j is slot j+1
\* of it), also where the interface speed is exactly 0.
C11_UpwindFlux ==
    UpwindFluxReturned
        => \A j \in 1..len(S) :
             /\ ret.val[2][j] =
                  IF RGt(speed(S, ret.arg.eq, 0).val[2][j], Zero)
                  THEN get_f(S, ret.arg.eq, 1).val[j + 1]
                  ELSE get_f(S, ret.arg.eq, 1).val[j + 2]
             /\ ret.val[1][j] =
                  IF RGt(speed(S, ret.arg.eq, 0).val[1][j], Zero)
                  THEN get_f(S, ret.arg.eq, 1).val[j]
                  ELSE get_f(S, ret.arg.eq, 1).val[j + 1]

\* the tie: a left interface of speed exactly 0 between two different
\* values, beside interfaces of positive and of negative speed
C11_Witness ==
    /\ UpwindFluxReturned
    /\ len(S) = 3
    /\ \E j \in 1..len(S) :
         /\ speed(S, ret.arg.eq, 0).val[1][j] = Zero
         /\ get_u(S, 1).val[j] # get_u(S, 1).val[j + 1]
    /\ \E j \in 1..len(S) : RGt(speed(S, ret.arg.eq, 0).val[1][j], Zero)
    /\ \E j \in 1..len(S) : RLt(speed(S, ret.arg.eq, 0).val[1][j], Zero)

\* dt / (2 dx), the dissipation coefficient of the claim
HalfDtOverDx(s) == RDiv(s.dt, RMul(Two, s.dx))

\* the Lax-Friedrichs flux between the neighbours (ul, fl) and (ur, fr)
LaxFriedrichsFormula(s, ul, ur, fl, fr) ==
    RSub(RDiv(RAdd(fr, fl), Two), RMul(HalfDtOverDx(s), RSub(ur, ul)))

C13_HaloTotal ==
    /\ (ret.op \in {"get_u", "get_f"} /\ len(S) >= 1)
        => (ret.ok /\ Len(ret.val) = len(S) + 2 * ret.arg.ext)
    /\ (ret.op = "run" /\ len(S) >= 1 /\ ~ret.ok) => ret.err = "cfl"

=============================================================================
